---- MODULE Spec2Model ----
(***************************************************************************)
(* Model of src/streamlit_app.py: a Streamlit script that is re-executed   *)
(* from top to bottom on every widget interaction.  One run loads the      *)
(* cached table df, reads the sidebar widgets, filters df, derives         *)
(* floor_category / lease_bucket / floor_bin, scores every filtered row,   *)
(* and keeps the 20 best rows with a formatted price.                      *)
(*                                                                         *)
(* Numbers that pandas holds as float64 (floor_area_sqm, price_per_sqm,    *)
(* medians, the score) are exact rationals here: records [n, d] in lowest  *)
(* terms with d > 0.  The sample values keep every quotient far from a     *)
(* float64 rounding boundary, so exact arithmetic orders and equates them  *)
(* as IEEE arithmetic does.                                                *)
(* Strings that the code upper-cases (town, flat_type) are tuples of       *)
(* one-character strings, so that str.upper() is computed per character.   *)
(***************************************************************************)
EXTENDS Integers, Sequences, FiniteSets, TLC

VARIABLES df, town, flat_type, selected_flat_models, storey_range,
          floor_area_range, lease_range, month_range, filtered, top20, error

vars == <<df, town, flat_type, selected_flat_models, storey_range,
          floor_area_range, lease_range, month_range, filtered, top20, error>>

(***************************************************************************)
(* Bounds of the model.                                                    *)
(***************************************************************************)
\* most rows of a table drawn from SampleCsv
MaxRows == 3
\* most rows of a generated table (more than the 20 kept by head(20))
MaxRankRows == 22

(***************************************************************************)
(* Rational arithmetic.                                                    *)
(***************************************************************************)
RECURSIVE Gcd(_, _)
Gcd(a, b) == IF b = 0 THEN a ELSE Gcd(b, a % b)

Abs(a) == IF a < 0 THEN -a ELSE a

Frac(n, d) ==
    LET s == IF d < 0 THEN -1 ELSE 1
        g == Gcd(Abs(n), Abs(d))
    IN  [n |-> (s * n) \div g, d |-> (s * d) \div g]

FromInt(i) == [n |-> i, d |-> 1]

FAdd(a, b) ==
    LET g == Gcd(a.d, b.d)
    IN  Frac(a.n * (b.d \div g) + b.n * (a.d \div g), (a.d \div g) * b.d)

FNeg(a) == [n |-> -a.n, d |-> a.d]

FSub(a, b) == FAdd(a, FNeg(b))

FMul(a, b) ==
    LET g1 == Gcd(Abs(a.n), b.d)
        g2 == Gcd(Abs(b.n), a.d)
    IN  Frac((a.n \div g1) * (b.n \div g2), (a.d \div g2) * (b.d \div g1))

\* b # 0
FDiv(a, b) == FMul(a, Frac(b.d, b.n))

FLt(a, b) ==
    LET g == Gcd(a.d, b.d)
    IN  a.n * (b.d \div g) < b.n * (a.d \div g)

FLe(a, b) == ~FLt(b, a)

\* Python's int() on a non-negative float: truncation
FInt(a) == a.n \div a.d

(***************************************************************************)
(* str.upper() on a tuple of characters.                                   *)
(***************************************************************************)
LowerCase == <<"a","b","c","d","e","f","g","h","i","j","k","l","m",
               "n","o","p","q","r","s","t","u","v","w","x","y","z">>
UpperCase == <<"A","B","C","D","E","F","G","H","I","J","K","L","M",
               "N","O","P","Q","R","S","T","U","V","W","X","Y","Z">>

UpperOf ==
    [c \in {LowerCase[i] : i \in DOMAIN LowerCase} |->
        UpperCase[CHOOSE i \in DOMAIN LowerCase : LowerCase[i] = c]]

UpperChar(c) == IF c \in DOMAIN UpperOf THEN UpperOf[c] ELSE c

upper(s) == [i \in DOMAIN s |-> UpperChar(s[i])]

(***************************************************************************)
(* Timestamps at day granularity.  Stamp is monotone in (year, month, day) *)
(* and is what pd.to_datetime yields for a "YYYY-MM" cell (day 1) and for  *)
(* a datetime.date of the date_input widget.                               *)
(***************************************************************************)
Stamp(y, m, d) == (y * 12 + (m - 1)) * 31 + (d - 1)

to_datetime(ym) == Stamp(ym[1], ym[2], 1)

\* ts - pd.DateOffset(months=k), for a timestamp on day 1 of a month
MinusMonths(ts, k) == ts - 31 * k

(***************************************************************************)
(* The CSV file.  A record holds the columns the script reads:             *)
(*   month <<year, month>>, storey_range <<low, high>> ("10 TO 12"),       *)
(*   remaining_lease <<years, months>> ("61 years 02 months").             *)
(***************************************************************************)
BUKIT_MERAH == <<"B","U","K","I","T"," ","M","E","R","A","H">>
Bukit_Merah == <<"B","u","k","i","t"," ","M","e","r","a","h">>
ANG_MO_KIO == <<"A","N","G"," ","M","O"," ","K","I","O">>
ROOM4 == <<"4"," ","R","O","O","M">>
ROOM3 == <<"3"," ","R","O","O","M">>

Csv(mo, tn, ft, bl, sr, area, fm, rl, price) ==
    [month |-> mo, town |-> tn, flat_type |-> ft, block |-> bl,
     storey_range |-> sr, floor_area_sqm |-> area, flat_model |-> fm,
     remaining_lease |-> rl, resale_price |-> price]

SampleCsv == <<
    Csv(<<2024, 6>>, BUKIT_MERAH, ROOM4, "1",  <<25, 27>>, FromInt(120),
        "Improved",   <<90, 0>>, 480000),
    Csv(<<2024, 5>>, BUKIT_MERAH, ROOM4, "2",  <<5, 7>>,   FromInt(60),
        "Model A",    <<55, 3>>, 360000),
    Csv(<<2024, 1>>, Bukit_Merah, ROOM4, "3",  <<10, 12>>, Frac(185, 2),
        "Improved",   <<60, 0>>, 462500),
    Csv(<<2023, 4>>, BUKIT_MERAH, ROOM3, "4",  <<20, 22>>, FromInt(70),
        "Maisonette", <<61, 5>>, 364000),
    Csv(<<2024, 6>>, BUKIT_MERAH, ROOM4, "5",  <<9, 11>>,  FromInt(67),
        "Model A",    <<80, 0>>, 2010000),
    Csv(<<2024, 3>>, BUKIT_MERAH, ROOM4, "6",  <<21, 23>>, FromInt(120),
        "Improved",   <<81, 1>>, 480000),
    Csv(<<2024, 2>>, ANG_MO_KIO,  ROOM4, "7",  <<13, 15>>, FromInt(110),
        "Model A",    <<79, 11>>, 550000) >>

\* the i-th record of a generated file: one town and flat type, every
\* month inside the default twelve-month window
RankCsv(i) ==
    Csv(<<2024, 1 + (i % 6)>>, BUKIT_MERAH, ROOM4, ToString(100 + i),
        <<(<<1, 10, 19, 22>>)[1 + (i % 4)], 30>>,
        FromInt((<<67, 92, 110>>)[1 + (i % 3)]),
        (<<"Improved", "Model A">>)[1 + (i % 2)],
        <<(<<55, 60, 61, 80, 81, 79, 92>>)[1 + (i % 7)], 0>>,
        (<<67, 92, 110>>)[1 + (i % 3)] * (4000 + 250 * (i % 5)))

(***************************************************************************)
(* load_data (lines 10-17).                                                *)
(***************************************************************************)
load_data(csv) ==
    [i \in DOMAIN csv |->
        [month |-> to_datetime(csv[i].month),
         town |-> csv[i].town,
         flat_type |-> csv[i].flat_type,
         block |-> csv[i].block,
         storey_range |-> csv[i].storey_range,
         floor_area_sqm |-> csv[i].floor_area_sqm,
         flat_model |-> csv[i].flat_model,
         remaining_lease |-> csv[i].remaining_lease,
         resale_price |-> csv[i].resale_price,
         remaining_lease_years |-> csv[i].remaining_lease[1],
         storey_floor |-> csv[i].storey_range[1],
         price_per_sqm |-> FDiv(FromInt(csv[i].resale_price),
                                csv[i].floor_area_sqm)]]

(***************************************************************************)
(* Column helpers (pandas Series.min / max / median / unique).             *)
(***************************************************************************)
Column(t, f) == [i \in DOMAIN t |-> t[i][f]]

Unique(s) == {s[i] : i \in DOMAIN s}

MinInt(S) == CHOOSE x \in S : \A y \in S : x <= y

MaxInt(S) == CHOOSE x \in S : \A y \in S : y <= x

\* s is a non-empty sequence of rationals
FMin(s) == s[CHOOSE i \in DOMAIN s : \A j \in DOMAIN s : FLe(s[i], s[j])]

FMax(s) == s[CHOOSE i \in DOMAIN s : \A j \in DOMAIN s : FLe(s[j], s[i])]

InsertAt(s, k, x) == SubSeq(s, 1, k - 1) \o <<x>> \o SubSeq(s, k, Len(s))

RECURSIVE SortFracs(_)
SortFracs(s) ==
    IF s = <<>> THEN <<>>
    ELSE LET r == SortFracs(Tail(s))
             k == Cardinality({i \in DOMAIN r : FLt(r[i], Head(s))})
         IN  InsertAt(r, k + 1, Head(s))

\* Series.median() of a non-empty column: the middle value, or the mean of
\* the two middle values
Median(s) ==
    LET r == SortFracs(s)
        n == Len(r)
    IN  IF n % 2 = 1 THEN r[(n + 1) \div 2]
        ELSE FDiv(FAdd(r[n \div 2], r[n \div 2 + 1]), FromInt(2))

\* a range test that leaves out the upper end
between_open(x, lo, hi) == lo <= x /\ x < hi

\* Series.between(lo, hi), inclusive on both ends
between(x, lo, hi) == lo <= x /\ x <= hi

FBetween(x, lo, hi) == FLe(FromInt(lo), x) /\ FLe(x, FromInt(hi))

\* Python's range(a, b, step) with step > 0
range(a, b, step) ==
    LET k == IF b <= a THEN 0 ELSE (b - a + step - 1) \div step
    IN  [i \in 1..k |-> a + (i - 1) * step]

\* pd.cut(x, bins) with right=True, include_lowest=False: the index i of
\* the interval (bins[i], bins[i+1]] that holds x, or 0 for NaN
cut(x, bins) ==
    LET ids == Cardinality({i \in DOMAIN bins : FLt(FromInt(bins[i]), x)})
    IN  IF ids = 0 \/ ids = Len(bins) THEN 0 ELSE ids

(***************************************************************************)
(* Sidebar (lines 39-85).                                                  *)
(***************************************************************************)
default_town == BUKIT_MERAH

default_flat_type == ROOM4

default_flat_models ==
    {"Improved", "DBSS", "Standard", "S1", "S2", "Model A", "Model A2",
     "Simplified"}

town_options(d) == Unique(Column(d, "town"))

flat_type_options(d) == Unique(Column(d, "flat_type"))

flat_model_options(d) == Unique(Column(d, "flat_model"))

\* slider bounds and default value (lines 81-83): (min, max) as integers
storey_bounds(d) ==
    <<MinInt(Unique(Column(d, "storey_floor"))),
      MaxInt(Unique(Column(d, "storey_floor")))>>

floor_area_bounds(d) ==
    <<FInt(FMin(Column(d, "floor_area_sqm"))),
      FInt(FMax(Column(d, "floor_area_sqm")))>>

lease_bounds(d) ==
    <<MinInt(Unique(Column(d, "remaining_lease_years"))),
      MaxInt(Unique(Column(d, "remaining_lease_years")))>>

latest_month(d) == MaxInt(Unique(Column(d, "month")))

month_default(d) == <<MinusMonths(latest_month(d), 12), latest_month(d)>>

(***************************************************************************)
(* Filter Data (lines 90-98).                                              *)
(***************************************************************************)
Passes(r, tn, ft, models, sr, ar, lr, mr) ==
    /\ upper(r.town) = upper(tn)
    /\ upper(r.flat_type) = upper(ft)
    /\ r.flat_model \in models
    /\ between(r.storey_floor, sr[1], sr[2])
    /\ FBetween(r.floor_area_sqm, ar[1], ar[2])
    /\ between(r.remaining_lease_years, lr[1], lr[2])
    /\ between(r.month, mr[1], mr[2])

\* boolean-mask selection df[mask]: the rows whose mask is True, in order
RECURSIVE SelectRows(_, _)
SelectRows(t, keep) ==
    IF t = <<>> THEN <<>>
    ELSE LET rest == SelectRows(SubSeq(t, 1, Len(t) - 1), keep)
         IN  IF keep[Len(t)] THEN Append(rest, t[Len(t)]) ELSE rest

filter(d, tn, ft, models, sr, ar, lr, mr) ==
    SelectRows(d, [i \in DOMAIN d |->
                      Passes(d[i], tn, ft, models, sr, ar, lr, mr)])

(***************************************************************************)
(* Floor Category & Lease Bucket (lines 103-108), floor bins (147-149).    *)
(***************************************************************************)
NaN == "nan"

floor_category(storey_floor) ==
    LET k == cut(FromInt(storey_floor), <<-1, 9, 20, 100>>)
    IN  IF k = 0 THEN NaN
        ELSE (<<"Low (<10)", "Mid (10-20)", "High (>20)">>)[k]

\* the thresholds taken as strict
lease_bucket_strict(x) ==
    IF x > 81 THEN "81-99 yrs"
    ELSE IF x > 61 THEN "61-80 yrs"
    ELSE "0-60 yrs"

lease_bucket(x) ==
    IF x >= 81 THEN "81-99 yrs"
    ELSE IF x >= 61 THEN "61-80 yrs"
    ELSE "0-60 yrs"

\* line 147, for a non-empty table
floor_bins(t) ==
    range(FInt(FMin(Column(t, "floor_area_sqm"))),
          FInt(FMax(Column(t, "floor_area_sqm"))) + 10, 10)

\* line 148: the interval of one row, <<left, right>> meaning
\* (left, right], or the empty tuple for NaN (no interval holds the value)
floor_bin(x, bins) ==
    LET k == cut(x, bins)
    IN  IF k = 0 THEN <<>> ELSE <<bins[k], bins[k + 1]>>

\* line 149: str() of the interval
floor_bin_str(b) ==
    IF b = <<>> THEN "nan"
    ELSE "(" \o ToString(b[1]) \o ", " \o ToString(b[2]) \o "]"

(***************************************************************************)
(* Potential Purchase Scoring (lines 198-220).  median_area stands for     *)
(* filtered['floor_area_sqm'].median(), which the code evaluates inside    *)
(* both functions on the same table.                                       *)
(***************************************************************************)
\* lines 200-207: the sum before clamping
score_sum(row, median_psqm, median_area) ==
    LET s0 == FromInt(50)
        s1 == IF row.storey_floor > 20 THEN FAdd(s0, FromInt(5))
              ELSE IF row.storey_floor >= 10 THEN FAdd(s0, FromInt(3))
              ELSE s0
        s2 == IF FLt(median_area, row.floor_area_sqm)
              THEN FAdd(s1, FromInt(5)) ELSE s1
        s3 == IF FLt(row.price_per_sqm, median_psqm)
              THEN FAdd(s2, FromInt(15))
              ELSE FSub(s2, FMul(FromInt(15),
                                 FDiv(FSub(row.price_per_sqm, median_psqm),
                                      median_psqm)))
        s4 == IF row.remaining_lease_years < 60 THEN FSub(s3, FromInt(25))
              ELSE IF row.remaining_lease_years < 80 THEN FSub(s3, FromInt(10))
              ELSE s3
    IN  s4

\* a clamp from above only
clamp_score_above(score) ==
    IF FLt(score, FromInt(100)) THEN score ELSE FromInt(100)

\* line 208: max(min(score, 100), 0)
clamp_score(score) ==
    LET lo == IF FLt(score, FromInt(100)) THEN score ELSE FromInt(100)
    IN  IF FLt(FromInt(0), lo) THEN lo ELSE FromInt(0)

calculate_value_score(row, median_psqm, median_area) ==
    clamp_score(score_sum(row, median_psqm, median_area))

\* ", ".join(reasons)
RECURSIVE join(_)
join(reasons) ==
    IF reasons = <<>> THEN ""
    ELSE IF Len(reasons) = 1 THEN reasons[1]
    ELSE reasons[1] \o ", " \o join(Tail(reasons))

\* the rationale with the lease reason at 60 years and below
explain_score_lease60(row, median_psqm, median_area) ==
    LET r1 == IF row.storey_floor > 20 THEN <<"High floor">>
              ELSE IF row.storey_floor >= 10 THEN <<"Mid floor">>
              ELSE <<>>
        r2 == IF FLt(median_area, row.floor_area_sqm)
              THEN Append(r1, "Spacious") ELSE r1
        r3 == IF row.remaining_lease_years <= 60
              THEN Append(r2, "Low remaining lease") ELSE r2
        r4 == IF FLt(row.price_per_sqm, median_psqm)
              THEN Append(r3, "Good value $/sqm") ELSE r3
    IN  join(r4)

explain_score(row, median_psqm, median_area) ==
    LET r1 == IF row.storey_floor > 20 THEN <<"High floor">>
              ELSE IF row.storey_floor >= 10 THEN <<"Mid floor">>
              ELSE <<>>
        r2 == IF FLt(median_area, row.floor_area_sqm)
              THEN Append(r1, "Spacious") ELSE r1
        r3 == IF row.remaining_lease_years < 60
              THEN Append(r2, "Low remaining lease") ELSE r2
        r4 == IF FLt(row.price_per_sqm, median_psqm)
              THEN Append(r3, "Good value $/sqm") ELSE r3
    IN  join(r4)

(***************************************************************************)
(* Top 20 (lines 223-224).                                                 *)
(***************************************************************************)
\* rows by ascending score
RECURSIVE StableAscending(_)
StableAscending(t) ==
    IF t = <<>> THEN <<>>
    ELSE LET r == StableAscending(SubSeq(t, 1, Len(t) - 1))
             x == t[Len(t)]
             k == Cardinality({i \in DOMAIN r :
                                 FLe(r[i].PotentialScore, x.PotentialScore)})
         IN  InsertAt(r, k + 1, x)

\* rows by descending score, equal scores in input order
RECURSIVE StableDescending(_)
StableDescending(t) ==
    IF t = <<>> THEN <<>>
    ELSE LET r == StableDescending(SubSeq(t, 1, Len(t) - 1))
             x == t[Len(t)]
             k == Cardinality({i \in DOMAIN r :
                                 FLe(x.PotentialScore, r[i].PotentialScore)})
         IN  InsertAt(r, k + 1, x)

Exchange(s, i) == [s EXCEPT ![i] = s[i + 1], ![i + 1] = s[i]]

\* sort_values("Potential Score", ascending=False) with the default
\* kind="quicksort", which pandas documents as not stable: the order of
\* rows with equal score is not determined by the call.  The outcomes
\* taken here are the input order of equal rows and every order that
\* exchanges two neighbouring rows of equal score.
sort_values(t) ==
    LET st == StableDescending(t)
    IN  {st} \cup {Exchange(st, i) : i \in
            {j \in 1..(Len(st) - 1) :
                st[j].PotentialScore = st[j + 1].PotentialScore}}

TopN == 20

head(s, n) == SubSeq(s, 1, IF Len(s) < n THEN Len(s) ELSE n)

\* round(n / d) to the nearest integer, ties to even, as the format
\* specifications .0f and .2f round an exactly represented value
RoundHalfEven(n, d) ==
    LET q == n \div d
        r == n % d
    IN  IF 2 * r < d THEN q
        ELSE IF 2 * r > d THEN q + 1
        ELSE IF q % 2 = 0 THEN q ELSE q + 1

TwoDigits(k) == IF k < 10 THEN "0" \o ToString(k) ELSE ToString(k)

\* lines 24-28.  Prices of a million or more in the sample files are
\* multiples of 10000, whose two-decimal form needs no rounding.
format_price(value) ==
    IF value >= 1000000
    THEN LET h == RoundHalfEven(value, 10000)
         IN  "$" \o ToString(h \div 100) \o "." \o TwoDigits(h % 100) \o "M"
    ELSE "$" \o ToString(RoundHalfEven(value, 1000)) \o "k"

(***************************************************************************)
(* One execution of the script body below the sidebar (lines 90-224):      *)
(* the set of results it can end with.  On an empty filtered table         *)
(* int(filtered["floor_area_sqm"].min()) at line 147 is int(nan), which    *)
(* raises ValueError: the run stops there and top20 is never assigned.     *)
(***************************************************************************)
Derived(t) ==
    LET bins == floor_bins(t)
    IN  [i \in DOMAIN t |->
            t[i] @@ [floor_category |-> floor_category(t[i].storey_floor),
                     lease_bucket |-> lease_bucket(t[i].remaining_lease_years),
                     floor_bin |-> floor_bin(t[i].floor_area_sqm, bins),
                     floor_bin_str |->
                         floor_bin_str(floor_bin(t[i].floor_area_sqm, bins))]]

\* scoring with the medians of the canonical table
Scored_canonical(t) ==
    LET median_psqm == Median(Column(df, "price_per_sqm"))
        median_area == Median(Column(df, "floor_area_sqm"))
    IN  [i \in DOMAIN t |->
            t[i] @@ [PotentialScore |->
                         calculate_value_score(t[i], median_psqm, median_area),
                     WhyRecommended |->
                         explain_score(t[i], median_psqm, median_area)]]

Scored(t) ==
    LET median_psqm == Median(Column(t, "price_per_sqm"))
        median_area == Median(Column(t, "floor_area_sqm"))
    IN  [i \in DOMAIN t |->
            t[i] @@ [PotentialScore |->
                         calculate_value_score(t[i], median_psqm, median_area),
                     WhyRecommended |->
                         explain_score(t[i], median_psqm, median_area)]]

FormatPrices(t) ==
    [i \in DOMAIN t |->
        [t[i] EXCEPT !.resale_price = format_price(t[i].resale_price)]]

Run(d, tn, ft, models, sr, ar, lr, mr) ==
    LET f0 == filter(d, tn, ft, models, sr, ar, lr, mr)
    IN  IF f0 = <<>>
        THEN {[filtered |-> <<>>, top20 |-> <<>>, error |-> "ValueError"]}
        ELSE LET f1 == Scored(Derived(f0))
             IN  {[filtered |-> f1,
                   top20 |-> FormatPrices(head(o, TopN)),
                   error |-> "none"] : o \in sort_values(f1)}

(***************************************************************************)
(* The files the program is started on: up to MaxRows records of SampleCsv *)
(* in file order, or the first n generated records for n above TopN.       *)
(***************************************************************************)
RECURSIVE Records(_)
Records(S) ==
    IF S = {} THEN <<>>
    ELSE <<SampleCsv[MinInt(S)]>> \o Records(S \ {MinInt(S)})

CsvFiles ==
    {Records(S) : S \in {T \in SUBSET (DOMAIN SampleCsv) :
                            Cardinality(T) \in 1..MaxRows}}
    \cup {[i \in 1..n |-> RankCsv(i)] : n \in (TopN + 1)..MaxRankRows}

\* lines 47 and 54: list.index() raises unless the default is an option
CanStart(d) ==
    /\ default_town \in town_options(d)
    /\ default_flat_type \in flat_type_options(d)

\* a cache that hands out the table with a run's column written to it
cache_data_written(d) ==
    [i \in DOMAIN d |->
        d[i] @@ [lease_bucket |-> lease_bucket(d[i].remaining_lease_years)]]

\* st.cache_data (lines 10, 19): every run gets the table loaded first
cache_data(d) == d

(***************************************************************************)
(* Values a user gives a widget.  A slider yields lo <= hi between its     *)
(* bounds; the model offers the two bounds as end points.  The date input  *)
(* offers the default window and the window from the earliest month of the *)
(* table to the latest.  A widget set to the value it already has causes   *)
(* no run.                                                                 *)
(***************************************************************************)
Ranges(b) == {<<b[1], b[2]>>, <<b[1], b[1]>>, <<b[2], b[2]>>}

MonthRanges(d) ==
    {month_default(d),
     <<MinInt(Unique(Column(d, "month"))), latest_month(d)>>}

(***************************************************************************)
(* One script run with the widget values given.                            *)
(***************************************************************************)
Rerun(tn, ft, models, sr, ar, lr, mr) ==
    /\ df' = cache_data(df)
    /\ town' = tn
    /\ flat_type' = ft
    /\ selected_flat_models' = models
    /\ storey_range' = sr
    /\ floor_area_range' = ar
    /\ lease_range' = lr
    /\ month_range' = mr
    /\ \E o \in Run(cache_data(df), tn, ft, models, sr, ar, lr, mr) :
          /\ filtered' = o.filtered
          /\ top20' = o.top20
          /\ error' = o.error

Init ==
    /\ df \in {load_data(c) : c \in CsvFiles}
    /\ CanStart(df)
    /\ town = default_town
    /\ flat_type = default_flat_type
    /\ selected_flat_models = flat_model_options(df) \cap default_flat_models
    /\ storey_range = storey_bounds(df)
    /\ floor_area_range = floor_area_bounds(df)
    /\ lease_range = lease_bounds(df)
    /\ month_range = month_default(df)
    /\ \E o \in Run(df, town, flat_type, selected_flat_models, storey_range,
                    floor_area_range, lease_range, month_range) :
          /\ filtered = o.filtered
          /\ top20 = o.top20
          /\ error = o.error

SelectTown ==
    \E t \in town_options(df) \ {town} :
        Rerun(t, flat_type, selected_flat_models, storey_range,
              floor_area_range, lease_range, month_range)

SelectFlatType ==
    \E t \in flat_type_options(df) \ {flat_type} :
        Rerun(town, t, selected_flat_models, storey_range,
              floor_area_range, lease_range, month_range)

\* line 67
ClickSelectAll ==
    Rerun(town, flat_type, flat_model_options(df), storey_range,
          floor_area_range, lease_range, month_range)

\* line 68
ClickDeselectAll ==
    Rerun(town, flat_type, {}, storey_range,
          floor_area_range, lease_range, month_range)

\* lines 72-78: one checkbox changes
ToggleFlatModel ==
    \E m \in flat_model_options(df) :
        Rerun(town, flat_type,
              IF m \in selected_flat_models
              THEN selected_flat_models \ {m}
              ELSE selected_flat_models \cup {m},
              storey_range, floor_area_range, lease_range, month_range)

SlideStoreyRange ==
    \E v \in Ranges(storey_bounds(df)) \ {storey_range} :
        Rerun(town, flat_type, selected_flat_models, v,
              floor_area_range, lease_range, month_range)

SlideFloorAreaRange ==
    \E v \in Ranges(floor_area_bounds(df)) \ {floor_area_range} :
        Rerun(town, flat_type, selected_flat_models, storey_range,
              v, lease_range, month_range)

SlideLeaseRange ==
    \E v \in Ranges(lease_bounds(df)) \ {lease_range} :
        Rerun(town, flat_type, selected_flat_models, storey_range,
              floor_area_range, v, month_range)

PickMonthRange ==
    \E v \in MonthRanges(df) \ {month_range} :
        Rerun(town, flat_type, selected_flat_models, storey_range,
              floor_area_range, lease_range, v)

Next ==
    \/ SelectTown
    \/ SelectFlatType
    \/ ClickSelectAll
    \/ ClickDeselectAll
    \/ ToggleFlatModel
    \/ SlideStoreyRange
    \/ SlideFloorAreaRange
    \/ SlideLeaseRange
    \/ PickMonthRange

Spec == Init /\ [][Next]_vars

(***************************************************************************)
(* Vocabulary of the properties, stated without the operators above.       *)
(***************************************************************************)
\* two characters that are equal or differ only in case
SameLetter(a, b) ==
    \/ a = b
    \/ \E i \in DOMAIN LowerCase : {a, b} = {LowerCase[i], UpperCase[i]}

EqualIgnoringCase(x, y) ==
    /\ Len(x) = Len(y)
    /\ \A i \in DOMAIN x : SameLetter(x[i], y[i])

\* the seven field predicates of the current criteria
Satisfies(r) ==
    /\ EqualIgnoringCase(r.town, town)
    /\ EqualIgnoringCase(r.flat_type, flat_type)
    /\ r.flat_model \in selected_flat_models
    /\ storey_range[1] <= r.storey_floor /\ r.storey_floor <= storey_range[2]
    /\ floor_area_range[1] * r.floor_area_sqm.d <= r.floor_area_sqm.n
    /\ r.floor_area_sqm.n <= floor_area_range[2] * r.floor_area_sqm.d
    /\ lease_range[1] <= r.remaining_lease_years
    /\ r.remaining_lease_years <= lease_range[2]
    /\ month_range[1] <= r.month /\ r.month <= month_range[2]

\* a row of a per-run table, cut back to the columns of the canonical table
Canonical(r) == [f \in DOMAIN df[1] |-> r[f]]

KeptRows == {i \in DOMAIN df : Satisfies(df[i])}

\* the k-th smallest value of a non-empty column
KthSmallest(s, k) ==
    s[CHOOSE i \in DOMAIN s :
        /\ Cardinality({j \in DOMAIN s : FLt(s[j], s[i])}) <= k - 1
        /\ Cardinality({j \in DOMAIN s : FLe(s[j], s[i])}) >= k]

MedianOf(s) ==
    IF Len(s) % 2 = 1 THEN KthSmallest(s, (Len(s) + 1) \div 2)
    ELSE FDiv(FAdd(KthSmallest(s, Len(s) \div 2),
                   KthSmallest(s, Len(s) \div 2 + 1)), FromInt(2))

SubsetMedianArea == MedianOf([i \in DOMAIN filtered |-> filtered[i].floor_area_sqm])

SubsetMedianPsqm == MedianOf([i \in DOMAIN filtered |-> filtered[i].price_per_sqm])

FloorBonus(r) ==
    IF r.storey_floor > 20 THEN 5
    ELSE IF 10 <= r.storey_floor /\ r.storey_floor <= 20 THEN 3 ELSE 0

AreaBonus(r, medArea) == IF FLt(medArea, r.floor_area_sqm) THEN 5 ELSE 0

GoodValue(r, medPsqm) == FLt(r.price_per_sqm, medPsqm)

ValueAdj(r, medPsqm) ==
    IF GoodValue(r, medPsqm) THEN FromInt(15)
    ELSE FNeg(FDiv(FMul(FromInt(15), FSub(r.price_per_sqm, medPsqm)), medPsqm))

LeaseAdj(r) ==
    IF r.remaining_lease_years < 60 THEN -25
    ELSE IF r.remaining_lease_years < 80 THEN -10 ELSE 0

UnclampedSum(r, medArea, medPsqm) ==
    FAdd(FromInt(50 + FloorBonus(r) + AreaBonus(r, medArea) + LeaseAdj(r)),
         ValueAdj(r, medPsqm))

Clamp(x, lo, hi) ==
    IF FLt(x, FromInt(lo)) THEN FromInt(lo)
    ELSE IF FLt(FromInt(hi), x) THEN FromInt(hi) ELSE x

\* rows A and B of the two-row scenario, in this order
ScenarioAB ==
    /\ Len(filtered) = 2
    /\ filtered[1].storey_floor = 25 /\ filtered[2].storey_floor = 5
    /\ filtered[1].floor_area_sqm = FromInt(120)
    /\ filtered[2].floor_area_sqm = FromInt(60)
    /\ filtered[1].price_per_sqm = FromInt(4000)
    /\ filtered[2].price_per_sqm = FromInt(6000)
    /\ filtered[1].remaining_lease_years = 90
    /\ filtered[2].remaining_lease_years = 55

\* position in filtered of the row of a given block (blocks are distinct)
Position(b) == CHOOSE j \in DOMAIN filtered : filtered[j].block = b

LeftOut == {j \in DOMAIN filtered :
               \A i \in DOMAIN top20 : top20[i].block # filtered[j].block}

(***************************************************************************)
(* C1  Filter conjunction: the filtered table is exactly the rows of the   *)
(* canonical table that satisfy all seven field predicates of the          *)
(* criteria (case-insensitive equality, set membership, inclusive          *)
(* ranges), in the canonical table's row order.                            *)
(***************************************************************************)
C1_FilterConjunction ==
    /\ Len(filtered) = Cardinality(KeptRows)
    /\ \A i \in KeptRows :
          Canonical(filtered[Cardinality({j \in KeptRows : j <= i})]) = df[i]

\* a run that kept a row whose town differs from the selection only in
\* case, and rejected another row
C1_Witness ==
    /\ town = Bukit_Merah
    /\ \E i \in DOMAIN filtered : filtered[i].town = BUKIT_MERAH
    /\ \E i \in DOMAIN filtered : filtered[i].town = Bukit_Merah
    /\ Len(filtered) < Len(df)

(***************************************************************************)
(* C2  Empty result is not an error: a run whose criteria select zero rows *)
(* completes without raising.                                              *)
(***************************************************************************)
C2_EmptyResultNoError == filtered = <<>> => error = "none"

(***************************************************************************)
(* C3  Score bounds: every score lies in [0, 100].                         *)
(***************************************************************************)
C3_ScoreBounds ==
    \A i \in DOMAIN filtered :
        /\ 0 <= filtered[i].PotentialScore.n
        /\ filtered[i].PotentialScore.n <= 100 * filtered[i].PotentialScore.d

\* a row priced so far above the median that its unclamped sum is negative
C3_Witness ==
    \E i \in DOMAIN filtered :
        /\ FLt(UnclampedSum(filtered[i], SubsetMedianArea, SubsetMedianPsqm),
               FromInt(0))
        /\ filtered[i].PotentialScore = FromInt(0)

(***************************************************************************)
(* C4  Score formula: score = clamp(50 + floorBonus + areaBonus + valueAdj *)
(* + leaseAdj, 0, 100) with both medians taken over the filtered subset;   *)
(* in the two-row scenario A scores 75 and B scores 22.                    *)
(***************************************************************************)
C4_ScoreFormula ==
    /\ filtered # <<>> =>
          \A i \in DOMAIN filtered :
              filtered[i].PotentialScore =
                  Clamp(UnclampedSum(filtered[i], SubsetMedianArea,
                                     SubsetMedianPsqm), 0, 100)
    /\ ScenarioAB =>
          /\ SubsetMedianArea = FromInt(90)
          /\ SubsetMedianPsqm = FromInt(5000)
          /\ filtered[1].PotentialScore = FromInt(75)
          /\ filtered[2].PotentialScore = FromInt(22)

\* the scenario, drawn from a canonical table with further rows
C4_Witness == ScenarioAB /\ Len(df) > 2

(***************************************************************************)
(* C5  Top-N selection: the table holds min(20, rows scored) rows, each a  *)
(* scored row with its price formatted, in non-increasing score order,     *)
(* and no row left out scores higher than a row in the table.              *)
(***************************************************************************)
C5_TopNSelection ==
    error = "none" =>
        /\ Len(top20) = IF Len(filtered) < 20 THEN Len(filtered) ELSE 20
        /\ \A i \in DOMAIN top20 :
              top20[i] = [filtered[Position(top20[i].block)] EXCEPT
                            !.resale_price = format_price(@)]
        /\ \A i, j \in DOMAIN top20 : top20[i].block = top20[j].block => i = j
        /\ \A i \in 1..(Len(top20) - 1) :
              FLe(top20[i + 1].PotentialScore, top20[i].PotentialScore)
        /\ \A i \in DOMAIN top20 : \A j \in LeftOut :
              FLe(filtered[j].PotentialScore, top20[i].PotentialScore)

\* more rows scored than the table holds, with different scores
C5_Witness ==
    /\ Len(filtered) > 20
    /\ Len(top20) = 20
    /\ top20[1].PotentialScore # top20[20].PotentialScore

(***************************************************************************)
(* C6  Ranking stability: rows of equal score appear in the table in their *)
(* input order, and of equal-scored rows at the cut-off the earlier ones   *)
(* are kept.                                                               *)
(***************************************************************************)
C6_RankingStability ==
    /\ \A i, j \in DOMAIN top20 :
          (i < j /\ top20[i].PotentialScore = top20[j].PotentialScore)
              => Position(top20[i].block) < Position(top20[j].block)
    /\ \A i \in DOMAIN top20 : \A j \in LeftOut :
          top20[i].PotentialScore = filtered[j].PotentialScore
              => Position(top20[i].block) < j

(***************************************************************************)
(* C7  Lease bucket: 81 and more is "81-99 yrs", 61 to 80 is "61-80 yrs",  *)
(* less than 61 is "0-60 yrs".                                             *)
(***************************************************************************)
C7_LeaseBucket ==
    \A i \in DOMAIN filtered :
        LET y == filtered[i].remaining_lease_years
            b == filtered[i].lease_bucket
        IN  /\ b \in {"0-60 yrs", "61-80 yrs", "81-99 yrs"}
            /\ b = "81-99 yrs" <=> y >= 81
            /\ b = "61-80 yrs" <=> (61 <= y /\ y <= 80)
            /\ b = "0-60 yrs" <=> y < 61

\* one table holding the four boundary values
C7_Witness ==
    \A y \in {60, 61, 80, 81} :
        \E i \in DOMAIN filtered : filtered[i].remaining_lease_years = y

(***************************************************************************)
(* C8  Floor-bin assignment: every row of a non-empty filtered table gets  *)
(* an interval of width 10, taken from edges that start at the integer     *)
(* floor of the smallest floor area, which holds the row's floor area.     *)
(***************************************************************************)
C8_FloorBinAssigned ==
    error = "none" =>
        \A i \in DOMAIN filtered :
            LET b == filtered[i].floor_bin
                x == filtered[i].floor_area_sqm
                first == FInt(FMin([k \in DOMAIN filtered |->
                                      filtered[k].floor_area_sqm]))
            IN  /\ b # <<>>
                /\ b[2] - b[1] = 10
                /\ b[1] >= first /\ (b[1] - first) % 10 = 0
                /\ FLe(FromInt(b[1]), x) /\ FLe(x, FromInt(b[2]))

(***************************************************************************)
(* C9  Rationale agrees with the score: 'Why Recommended' lists, in the    *)
(* fixed order and separated by ", ", exactly the reasons whose score      *)
(* component applied: High floor (+5), Mid floor (+3), Spacious (+5),      *)
(* Low remaining lease (-25), Good value $/sqm (+15).                      *)
(***************************************************************************)
RECURSIVE CommaSeparated(_)
CommaSeparated(s) ==
    IF Len(s) = 0 THEN ""
    ELSE IF Len(s) = 1 THEN s[1]
    ELSE CommaSeparated(SubSeq(s, 1, Len(s) - 1)) \o ", " \o s[Len(s)]

Reasons(r, medArea, medPsqm) ==
    (IF FloorBonus(r) = 5 THEN <<"High floor">> ELSE <<>>)
    \o (IF FloorBonus(r) = 3 THEN <<"Mid floor">> ELSE <<>>)
    \o (IF AreaBonus(r, medArea) = 5 THEN <<"Spacious">> ELSE <<>>)
    \o (IF LeaseAdj(r) = -25 THEN <<"Low remaining lease">> ELSE <<>>)
    \o (IF ValueAdj(r, medPsqm) = FromInt(15) /\ GoodValue(r, medPsqm)
        THEN <<"Good value $/sqm">> ELSE <<>>)

C9_RationaleAgrees ==
    filtered # <<>> =>
        \A i \in DOMAIN filtered :
            filtered[i].WhyRecommended =
                CommaSeparated(Reasons(filtered[i], SubsetMedianArea,
                                       SubsetMedianPsqm))

\* a table with a three-reason row, a one-reason row and a row without
\* any reason
C9_Witness ==
    /\ \E i \in DOMAIN filtered :
          filtered[i].WhyRecommended = "High floor, Spacious, Good value $/sqm"
    /\ \E i \in DOMAIN filtered :
          filtered[i].WhyRecommended = "Low remaining lease"
    /\ \E i \in DOMAIN filtered : filtered[i].WhyRecommended = ""

(***************************************************************************)
(* C10  Canonical table is read-only: no run changes df.                   *)
(***************************************************************************)
C10_CanonicalReadOnly == [][df' = df]_vars

\* a run has written derived columns, scores and a formatted price to its
\* own tables while df holds the loaded columns and the numeric price
C10_Witness ==
    /\ top20 # <<>>
    /\ top20[1].resale_price =
          format_price(df[CHOOSE i \in DOMAIN df :
                              df[i].block = top20[1].block].resale_price)
    /\ "lease_bucket" \in DOMAIN filtered[1]
    /\ town # default_town
    /\ \A i \in DOMAIN df :
          DOMAIN df[i] \cap {"floor_category", "lease_bucket", "floor_bin",
                             "floor_bin_str", "PotentialScore",
                             "WhyRecommended"} = {}
    /\ Len(filtered) < Len(df)

====
